---- MODULE Spec2Model ----
(***************************************************************************)
(* The two invoker scripts of the repository, src/run_wasm.js (one         *)
(* argument) and src/unnamed/part_000 (any number of arguments), run by    *)
(* the host on the same command line and the same module file.             *)
(*                                                                         *)
(* Each script is a list of statements.  A statement names the identifiers *)
(* it evaluates (reads), the identifiers it declares (binds) and what it   *)
(* does (op).  The host first compiles the whole script: one ill-formed    *)
(* statement is a SyntaxError and nothing runs.  Evaluating an identifier  *)
(* that is neither a host global nor declared throws a ReferenceError.     *)
(* Both scripts are translated as written, misspelt identifiers included:   *)
(* part_000 does not compile (line 7) and run_wasm.js throws at line 4      *)
(* (`progress` is not defined), so no run of either script gets as far as   *)
(* reading the module file.  The statements after those lines are           *)
(* translated all the same; Exec gives what each of them does.              *)
(***************************************************************************)
EXTENDS Integers, Sequences, FiniteSets, TLC

VARIABLES
    path,      \* the module path on the command line: absent, missing, readable
    valid,     \* whether the bytes of the file are a module that instantiates
    exports,   \* the names in the export table of the instantiated module
    traps,     \* whether the call of an export raises at the boundary
    argStrs,   \* the argument tokens after the path, each a sequence of characters
    pc,        \* per script: "boot", "running", "awaiting", "rejected", "fulfilled", "exited"
    ip,        \* per script: the index in Program of the statement to run next
    bound,     \* per script: the identifiers declared so far
    fn,        \* per script: the export held by the variable fn ("undefined" if none)
    args,      \* per script: the coerced arguments held by arg / args
    calls,     \* per script: the calls made, in order: [name, args]
    stdout,    \* per script: the lines printed by console.log
    err,       \* per script: the error thrown and not caught (NoError if none)
    stderr,    \* per script: the errors the host printed on exit
    exitCode,  \* per script: the exit status (-1 while running)
    trace      \* per script: the phases of the run (history)

vars == <<path, valid, exports, traps, argStrs, pc, ip, bound, fn, args, calls,
          stdout, err, stderr, exitCode, trace>>

inputs == <<path, valid, exports, traps, argStrs>>

\* ------------------------------------------------------------------ bounds
MaxArgs == 2

\* ------------------------------------------------------------------ inputs
Scripts == {"run_wasm", "part_000"}

ExportNames == {"main", "id", "add", "other"}

Digits == {"0", "1", "2", "3", "4", "5", "6", "7", "8", "9"}

Tokens == { <<"2">>, <<"3">>, <<"-", "7">>, <<"a", "b", "c">>,
            <<"3", ".", "5">>, <<>> }

RECURSIVE SeqsUpTo(_, _)
SeqsUpTo(S, n) ==
    IF n = 0 THEN { <<>> }
    ELSE LET shorter == SeqsUpTo(S, n - 1)
         IN  shorter \cup { Append(q, x) : q \in shorter, x \in S }

\* ------------------------------------------------------------------ values
NaN == [nan |-> TRUE, val |-> 0]

Num(n) == [nan |-> FALSE, val |-> n]

DigitVal(c) ==
    CASE c = "0" -> 0 [] c = "1" -> 1 [] c = "2" -> 2 [] c = "3" -> 3
      [] c = "4" -> 4 [] c = "5" -> 5 [] c = "6" -> 6 [] c = "7" -> 7
      [] c = "8" -> 8 [] c = "9" -> 9

\* The longest prefix of s made of digits.
RECURSIVE DigitPrefix(_)
DigitPrefix(s) ==
    IF s = <<>> \/ Head(s) \notin Digits THEN <<>>
    ELSE <<Head(s)>> \o DigitPrefix(Tail(s))

RECURSIVE DigitsValue(_)
DigitsValue(d) ==
    IF d = <<>> THEN 0
    ELSE 10 * DigitsValue(SubSeq(d, 1, Len(d) - 1)) + DigitVal(d[Len(d)])

RECURSIVE TrimLeft(_)
TrimLeft(s) ==
    IF s # <<>> /\ Head(s) = " " THEN TrimLeft(Tail(s)) ELSE s

\* parseInt(s, 10): leading blanks skipped, an optional sign, then the longest
\* run of digits; what follows the digits is ignored; no digit at all is NaN.
parseInt(s) ==
    LET t    == TrimLeft(s)
        neg  == t # <<>> /\ Head(t) = "-"
        body == IF t # <<>> /\ Head(t) \in {"-", "+"} THEN Tail(t) ELSE t
        d    == DigitPrefix(body)
    IN  IF d = <<>> THEN NaN
        ELSE Num(IF neg THEN 0 - DigitsValue(d) ELSE DigitsValue(d))

\* A token that is a base-10 integer in full: an optional sign and digits only.
IsInteger(s) ==
    LET body == IF s # <<>> /\ Head(s) \in {"-", "+"} THEN Tail(s) ELSE s
    IN  body # <<>> /\ DigitPrefix(body) = body

\* The first name of prefs that is in the export table; "undefined" if none:
\* instance.exports.a || instance.exports.b || ...
RECURSIVE FirstPresent(_, _)
FirstPresent(prefs, table) ==
    IF prefs = <<>> THEN "undefined"
    ELSE IF Head(prefs) \in table THEN Head(prefs)
    ELSE FirstPresent(Tail(prefs), table)

\* ----------------------------------------------------------------- scripts
\* The identifiers the host defines for every script.
Globals == {"require", "process", "WebAssembly", "parseInt", "console", "undefined"}

Stmt(line, ok, reads, binds, op, prefs) ==
    [line |-> line, ok |-> ok, reads |-> reads, binds |-> binds, op |-> op,
     prefs |-> prefs]

\* src/run_wasm.js, statement by statement.
RunWasmProgram ==
    << Stmt(1,  TRUE, {"require"}, {"fs"}, "require", <<>>),
       Stmt(4,  TRUE, {"progress"}, {"wasmPath", "argStr"}, "argv", <<>>),
       Stmt(5,  TRUE, {"fs", "wasmPath"}, {"byters"}, "readFile", <<>>),
       Stmt(6,  TRUE, {"WebAssembly", "bytes"}, {"instance"}, "instantiate", <<>>),
       Stmt(7,  TRUE, {"argStr", "parseInt", "undefined"}, {"arg"}, "coerceOne", <<>>),
       Stmt(10, TRUE, {"instance"}, {"fn"}, "resolve", <<"main", "id">>),
       Stmt(11, TRUE, {"fn"}, {}, "guard", <<"main", "id">>),
       Stmt(12, TRUE, {"arg", "undefined", "fn"}, {"res"}, "call", <<>>),
       Stmt(13, TRUE, {"console", "res"}, {}, "log", <<>>) >>

\* src/unnamed/part_000, statement by statement.  Line 7 starts with the word
\* `coonst` followed by an identifier: it is not a statement of the language.
Part000Program ==
    << Stmt(1,  TRUE, {"require"}, {"fs"}, "require", <<>>),
       Stmt(4,  TRUE, {"process"}, {"wasPath", "argStrs"}, "argv", <<>>),
       Stmt(5,  TRUE, {"fs", "wasmPath"}, {"bytes"}, "readFile", <<>>),
       Stmt(6,  TRUE, {"WebAssemblyinstantiate", "bytes"}, {"instance"}, "instantiate", <<>>),
       Stmt(7,  FALSE, {"instance"}, {"fn"}, "resolve", <<"main", "id", "add">>),
       Stmt(8,  TRUE, {"fn"}, {}, "guard", <<"main", "id", "add">>),
       Stmt(9,  TRUE, {"argStrs", "parseInt"}, {"args"}, "coerceAll", <<>>),
       Stmt(10, TRUE, {"fn", "args"}, {"res"}, "call", <<>>),
       Stmt(11, TRUE, {"console", "res"}, {}, "log", <<>>) >>

Program(s) == IF s = "run_wasm" THEN RunWasmProgram ELSE Part000Program

\* The first ill-formed statement of a script, 0 if it compiles.
RECURSIVE FirstIllFormed(_, _)
FirstIllFormed(prog, i) ==
    IF i > Len(prog) THEN 0
    ELSE IF ~prog[i].ok THEN i
    ELSE FirstIllFormed(prog, i + 1)

\* ------------------------------------------------------------------ errors
NoError == [kind |-> "none", line |-> 0, names |-> <<>>]

Error(kind, line, names) == [kind |-> kind, line |-> line, names |-> names]

\* The exit status the host gives a process whose script does not compile or
\* whose promise is rejected with nobody handling it: neither script has a
\* catch or sets a status of its own.
UncaughtExitCode == 1

\* The value a call returns, as far as the invoker knows it.
Return(name, a) == [of |-> name, on |-> a]

\* argStr ? parseInt(argStr, 10) : undefined, then fn(arg) or fn(): the
\* argument list of the call, from the first token only.
CoerceOne(toks) ==
    IF toks = <<>> \/ toks[1] = <<>> THEN <<>> ELSE << parseInt(toks[1]) >>

\* argStrs.map(n => parseInt(n, 10))
CoerceAll(toks) == [i \in 1..Len(toks) |-> parseInt(toks[i])]

\* What running statement st does: the error it throws ("none" if it
\* completes), and the values it leaves in fn and args, the call it makes,
\* the line it prints and the phase it completes.
Exec(s, st) ==
    LET base == [thrown |-> NoError, fn |-> fn[s], args |-> args[s],
                 call |-> <<>>, out |-> <<>>, phase |-> <<>>, await |-> FALSE]
    IN  CASE st.op = "readFile" ->
               IF path = "absent"
               THEN [base EXCEPT !.thrown = Error("TypeError", st.line, <<>>)]
               ELSE IF path = "missing"
               THEN [base EXCEPT !.thrown = Error("ENOENT", st.line, <<>>)]
               ELSE base
          [] st.op = "instantiate" -> [base EXCEPT !.await = TRUE]
          [] st.op = "coerceOne" ->
               [base EXCEPT !.args = CoerceOne(argStrs),
                            !.phase = <<"ArgumentsCoerced">>]
          [] st.op = "coerceAll" ->
               [base EXCEPT !.args = CoerceAll(argStrs),
                            !.phase = <<"ArgumentsCoerced">>]
          [] st.op = "resolve" ->
               [base EXCEPT !.fn = FirstPresent(st.prefs, exports)]
          [] st.op = "guard" ->
               IF fn[s] = "undefined"
               THEN [base EXCEPT !.thrown = Error("Error", st.line, st.prefs)]
               ELSE [base EXCEPT !.phase = <<"ExportResolved">>]
          [] st.op = "call" ->
               IF traps
               THEN [base EXCEPT !.call = << [name |-> fn[s], args |-> args[s]] >>,
                                 !.thrown = Error("RuntimeError", st.line, <<>>)]
               ELSE [base EXCEPT !.call = << [name |-> fn[s], args |-> args[s]] >>,
                                 !.phase = <<"Invoked">>]
          [] st.op = "log" ->
               [base EXCEPT !.out = << [label |-> "Result:",
                                        value |-> Return(fn[s], args[s])] >>,
                            !.phase = <<"Reported">>]
          [] OTHER -> base

\* ----------------------------------------------------------------- actions
Init ==
    /\ path \in {"absent", "missing", "readable"}
    /\ valid \in BOOLEAN
    /\ exports \in SUBSET ExportNames
    /\ traps \in BOOLEAN
    /\ argStrs \in SeqsUpTo(Tokens, MaxArgs)
    /\ path = "absent" => argStrs = <<>>
    /\ pc = [s \in Scripts |-> "boot"]
    /\ ip = [s \in Scripts |-> 1]
    /\ bound = [s \in Scripts |-> {}]
    /\ fn = [s \in Scripts |-> "undefined"]
    /\ args = [s \in Scripts |-> <<>>]
    /\ calls = [s \in Scripts |-> <<>>]
    /\ stdout = [s \in Scripts |-> <<>>]
    /\ err = [s \in Scripts |-> NoError]
    /\ stderr = [s \in Scripts |-> <<>>]
    /\ exitCode = [s \in Scripts |-> -1]
    /\ trace = [s \in Scripts |-> <<"Start">>]

\* The host compiles the script.  An ill-formed statement anywhere in it is a
\* SyntaxError: no statement runs and the process exits.
Compile(s) ==
    /\ pc[s] = "boot"
    /\ LET bad == FirstIllFormed(Program(s), 1)
       IN  IF bad # 0
           THEN /\ pc' = [pc EXCEPT ![s] = "exited"]
                /\ err' = [err EXCEPT ![s] = Error("SyntaxError", Program(s)[bad].line, <<>>)]
                /\ stderr' = [stderr EXCEPT ![s] = Append(@, err'[s])]
                /\ exitCode' = [exitCode EXCEPT ![s] = UncaughtExitCode]
                /\ trace' = [trace EXCEPT ![s] = Append(@, "Failed")]
           ELSE /\ pc' = [pc EXCEPT ![s] = "running"]
                /\ UNCHANGED <<err, stderr, exitCode, trace>>
    /\ UNCHANGED <<inputs, ip, bound, fn, args, calls, stdout>>

\* Throw with the error recorded and the function going on with the next
\* statement, as if each statement were wrapped in its own try and catch.
ThrowAndContinue(s, e, made) ==
    /\ pc' = [pc EXCEPT ![s] = IF ip[s] = Len(Program(s)) THEN "rejected" ELSE "running"]
    /\ ip' = [ip EXCEPT ![s] = IF ip[s] = Len(Program(s)) THEN @ ELSE @ + 1]
    /\ err' = [err EXCEPT ![s] = e]
    /\ calls' = [calls EXCEPT ![s] = @ \o made]
    /\ trace' = [trace EXCEPT ![s] = Append(@, "Failed")]
    /\ UNCHANGED <<bound, fn, args, stdout>>

\* Throw with the error swallowed, as if the promise of the async function
\* had an empty catch handler.
ThrowSwallowed(s, e, made) ==
    /\ pc' = [pc EXCEPT ![s] = "fulfilled"]
    /\ calls' = [calls EXCEPT ![s] = @ \o made]
    /\ UNCHANGED <<ip, bound, fn, args, stdout, err, trace>>

\* The state after a statement throws e inside the async function: its
\* promise is rejected and no later statement runs.
Throw(s, e, made) ==
    /\ pc' = [pc EXCEPT ![s] = "rejected"]
    /\ err' = [err EXCEPT ![s] = e]
    /\ calls' = [calls EXCEPT ![s] = @ \o made]
    /\ trace' = [trace EXCEPT ![s] = Append(@, "Failed")]
    /\ UNCHANGED <<ip, bound, fn, args, stdout>>

\* The state after statement st completes with outcome r.
Complete(s, st, r) ==
    /\ pc' = [pc EXCEPT ![s] = IF ip[s] = Len(Program(s)) THEN "fulfilled" ELSE "running"]
    /\ ip' = [ip EXCEPT ![s] = @ + 1]
    /\ bound' = [bound EXCEPT ![s] = @ \cup st.binds]
    /\ fn' = [fn EXCEPT ![s] = r.fn]
    /\ args' = [args EXCEPT ![s] = r.args]
    /\ calls' = [calls EXCEPT ![s] = @ \o r.call]
    /\ stdout' = [stdout EXCEPT ![s] = @ \o r.out]
    /\ trace' = [trace EXCEPT ![s] = @ \o r.phase]
    /\ UNCHANGED err

\* One statement of the async function, or the settling of the awaited
\* instantiation.
Step(s) ==
    /\ pc[s] \in {"running", "awaiting"}
    /\ LET st == Program(s)[ip[s]]
           r  == Exec(s, st)
       IN  IF pc[s] = "awaiting"
           THEN IF valid
                THEN Complete(s, st, [r EXCEPT !.phase = <<"Loaded">>])
                ELSE Throw(s, Error("CompileError", st.line, <<>>), <<>>)
           ELSE IF ~(st.reads \subseteq Globals \cup bound[s])
           THEN Throw(s, Error("ReferenceError", st.line, <<>>), <<>>)
           ELSE IF r.thrown # NoError
           THEN Throw(s, r.thrown, r.call)
           ELSE IF r.await
           THEN /\ pc' = [pc EXCEPT ![s] = "awaiting"]
                /\ UNCHANGED <<ip, bound, fn, args, calls, stdout, err, trace>>
           ELSE Complete(s, st, r)
    /\ UNCHANGED <<inputs, stderr, exitCode>>

\* Exit on a host that only warns of a rejection nobody handles: the status
\* is 0 whatever happened.
ExitStatusZero(s) ==
    /\ pc[s] \in {"rejected", "fulfilled"}
    /\ pc' = [pc EXCEPT ![s] = "exited"]
    /\ exitCode' = [exitCode EXCEPT ![s] = 0]
    /\ stderr' = [stderr EXCEPT ![s] = IF pc[s] = "rejected" THEN Append(@, err[s]) ELSE @]
    /\ UNCHANGED <<inputs, ip, bound, fn, args, calls, stdout, err, trace>>

\* The process ends: with status 0 when the promise of the async function is
\* fulfilled, with the error printed and the uncaught status when it is
\* rejected.
Exit(s) ==
    /\ pc[s] \in {"rejected", "fulfilled"}
    /\ pc' = [pc EXCEPT ![s] = "exited"]
    /\ exitCode' = [exitCode EXCEPT ![s] = IF pc[s] = "rejected" THEN UncaughtExitCode ELSE 0]
    /\ stderr' = [stderr EXCEPT ![s] = IF pc[s] = "rejected" THEN Append(@, err[s]) ELSE @]
    /\ UNCHANGED <<inputs, ip, bound, fn, args, calls, stdout, err, trace>>

Next == \E s \in Scripts : Compile(s) \/ Step(s) \/ Exit(s)

Spec == Init /\ [][Next]_vars

FairSpec == Spec /\ WF_vars(Next)

\* ------------------------------------------------------------------ claims
Exited(s) == pc[s] = "exited"

Failed(s) == err[s] # NoError

\* The preference list of the specification.
Preference == <<"main", "id", "add">>

Loadable == path = "readable" /\ valid

AllIntegers == \A i \in 1..Len(argStrs) : IsInteger(argStrs[i])

\* The failure kind of the specification an uncaught error falls under, by
\* the statement that throws it: the file read and the instantiation load the
\* module, the guard reports the missing entry point, the call invokes.  No
\* statement of either script rejects an argument token.
Kind(e) ==
    CASE e.kind \in {"ENOENT", "TypeError", "CompileError"} -> "ModuleLoadError"
      [] e.kind = "Error" -> "NoEntryPointError"
      [] e.kind = "RuntimeError" -> "InvocationError"
      [] e.kind = "none" -> "none"
      [] OTHER -> "ProgramError"

ResultLine(name, a) == [label |-> "Result:", value |-> Return(name, a)]

\* C1: a run on a module that has the first-preferred entry point, with N
\* integer tokens, calls that export once with those N integers in order and
\* prints what the call returns.
C1_CallsWithGivenIntegers ==
    \A s \in Scripts :
        (Exited(s) /\ Loadable /\ Preference[1] \in exports /\ AllIntegers /\ ~traps)
        => /\ calls[s] = << [name |-> Preference[1], args |-> CoerceAll(argStrs)] >>
           /\ stdout[s] = << ResultLine(Preference[1], CoerceAll(argStrs)) >>

\* C2: the export a run invokes is the earliest name of main, id, add that the
\* export table has.
C2_EarliestPresentIsCalled ==
    \A s \in Scripts :
        (Exited(s) /\ Loadable /\ AllIntegers
           /\ FirstPresent(Preference, exports) # "undefined")
        => /\ calls[s] # <<>>
           /\ \A i \in 1..Len(calls[s]) :
                 calls[s][i].name = FirstPresent(Preference, exports)

\* C3: on a module with none of the candidate names the run fails with
\* NoEntryPointError, the message lists the names tried, nothing is called and
\* the exit status is not 0.
C3_NoEntryPointFails ==
    \A s \in Scripts :
        (Exited(s) /\ Loadable /\ FirstPresent(Preference, exports) = "undefined")
        => /\ Kind(err[s]) = "NoEntryPointError"
           /\ err[s].names # <<>>
           /\ calls[s] = <<>>
           /\ exitCode[s] # 0

\* C4: with a token that is not a base-10 integer the run fails with
\* ArgumentParseError and the export is never called.
C4_BadTokenFailsBeforeCall ==
    \A s \in Scripts :
        (Exited(s) /\ Loadable /\ ~AllIntegers
           /\ FirstPresent(Preference, exports) # "undefined")
        => /\ Kind(err[s]) = "ArgumentParseError"
           /\ calls[s] = <<>>

\* C5: with a path that does not exist the run fails with ModuleLoadError
\* before instantiation, discovery, coercion and invocation, and the exit
\* status is not 0.
C5_MissingPathFailsFirst ==
    \A s \in Scripts :
        (Exited(s) /\ path = "missing")
        => /\ Kind(err[s]) = "ModuleLoadError"
           /\ trace[s] = <<"Start", "Failed">>
           /\ calls[s] = <<>>
           /\ exitCode[s] # 0

\* C6: a run prints the Result line once and exits 0 exactly when it succeeds;
\* a failed run prints no Result line and exits non-zero; no run has both a
\* Result line and a failure.
C6_ResultIffSuccess ==
    \A s \in Scripts :
        /\ Len(stdout[s]) <= 1
        /\ ~(stdout[s] # <<>> /\ Failed(s))
        /\ Exited(s) =>
              /\ ~Failed(s) <=> (Len(stdout[s]) = 1 /\ exitCode[s] = 0)
              /\ Failed(s) => (stdout[s] = <<>> /\ exitCode[s] # 0)

\* A run of run_wasm.js that failed inside the async function and exited.
C6_Witness ==
    /\ Exited("run_wasm") /\ Failed("run_wasm")
    /\ stderr["run_wasm"] # <<>>
    /\ exitCode["run_wasm"] = 1 /\ stdout["run_wasm"] = <<>>

PhaseOrder ==
    <<"Start", "Loaded", "ExportResolved", "ArgumentsCoerced", "Invoked", "Reported">>

TerminalPhases == {"Reported", "Failed"}

EndedOnce(s) ==
    /\ Exited(s)
    /\ trace[s][Len(trace[s])] \in TerminalPhases
    /\ Cardinality({i \in 1..Len(trace[s]) : trace[s][i] \in TerminalPhases}) = 1

\* C8: every run ends in exactly one of Reported and Failed and stays there,
\* and once a run has failed no later phase, call or output happens in it.
C8_TerminatesOnce ==
    /\ <>[](\A s \in Scripts : EndedOnce(s))
    /\ [][\A s \in Scripts :
             Failed(s) => /\ trace'[s] = trace[s]
                          /\ calls'[s] = calls[s]
                          /\ stdout'[s] = stdout[s]
                          /\ err'[s] = err[s]]_vars

\* Both runs are over, each with a failure as its only terminal phase.
C8_Witness ==
    \A s \in Scripts : EndedOnce(s) /\ Failed(s) /\ trace[s] = <<"Start", "Failed">>

C10_SameOutcomeUpToOneToken ==
    (Len(argStrs) <= 1 /\ \A s \in Scripts : Exited(s))
    => \/ \A s \in Scripts : Failed(s)
       \/ /\ \A s \in Scripts : ~Failed(s)
          /\ fn["run_wasm"] = fn["part_000"]
          /\ calls["run_wasm"] = calls["part_000"]
          /\ stdout["run_wasm"] = stdout["part_000"]

\* Both scripts have run to their end on a command line whose one token is the
\* empty string, and on one whose token is not a number.
C10_Witness ==
    /\ \A s \in Scripts : Exited(s)
    /\ Len(argStrs) = 1 /\ argStrs[1] \in {<<>>, <<"a", "b", "c">>}
    /\ Loadable /\ exports = {"id"}

====
